---- MODULE Spec2Model ----
(***************************************************************************)
(* A model of echo-fetch's download engine (src/src/echo_core.py): the     *)
(* FastDownloader constructor (capability probe and thread planning), the  *)
(* per-range workers with resume and retry, the pause flag, the merger and *)
(* start()'s decision tree.                                                *)
(*                                                                         *)
(* Specifications that share the variables:                                *)
(*   SpecPlanner    choose_optimal_threads and the range plan, as pure     *)
(*                  functions of (size, requested bound, core count);      *)
(*   SpecConstruct  the constructor, as a function of the responses the    *)
(*                  server gives to its probe requests;                    *)
(*   Spec           start() on a constructed downloader: workers, pause(), *)
(*                  resume(), merge_parts, download_single_thread;         *)
(*   SpecStale      Spec with a part file of an earlier run in the working *)
(*                  directory;                                             *)
(*   SpecLive       Spec from an empty disk, with the fairness of a        *)
(*                  scheduler that runs every thread, for termination;     *)
(*   SpecRestart    SpecLive with start() called again on a downloader     *)
(*                  whose earlier run has ended;                           *)
(*   SpecUI         the queue of src/src/desktop_echo.py: the download     *)
(*                  thread of each item and the handlers of the main loop; *)
(*   SpecUILive     SpecUI with threads that run to their end and a main   *)
(*                  loop that runs its callbacks;                          *)
(*   SpecHistory    DownloadHistory (src/src/download_history.py) on its   *)
(*                  own: add_record, get_recent_downloads, clear_history.  *)
(***************************************************************************)
EXTENDS Integers, Sequences, FiniteSets

VARIABLES
    pc,               \* where the planner / constructor / start() stands
    probe,            \* the server's answers to the constructor's requests
    requested,        \* the num_threads argument of the constructor
    cores,            \* psutil.cpu_count(logical=True); 0 stands for None
    file_size,        \* self.file_size
    num_threads,      \* self.num_threads
    range_supported,  \* self.range_supported
    part_size,        \* self.part_size
    paused,           \* self.paused
    exceptions,       \* self.exceptions: the failures recorded by workers
    sameDir,          \* TRUE iff download_path is the process's working directory
    fs,               \* the files on disk
    workers,          \* per worker thread: arguments, locals, position
    single,           \* locals of download_single_thread
    merge,            \* locals of merge_parts
    raised,           \* what start() or the constructor raised, if anything
    resource_size,    \* the length of the resource the server holds
    download_queue,   \* DownloadManagerUI.download_queue: the items' fields
    history,          \* DownloadHistory.history
    current_download, \* DownloadManagerUI.current_download; 0 stands for None
    downloader,       \* DownloadManagerUI.downloader: the item it belongs to, or 0
    after_queue,      \* callbacks scheduled with self.after and not yet run
    thread,           \* per item: its _run_download_item thread
    recent            \* what get_recent_downloads has just returned, and for which limit

uiVars == <<download_queue, history, current_download, downloader, after_queue, thread,
            recent>>

vars == <<pc, probe, requested, cores, file_size, num_threads, range_supported,
          part_size, paused, exceptions, sameDir, fs, workers, single, merge, raised,
          resource_size, uiVars>>

objVars == <<file_size, num_threads, range_supported, part_size>>

(***************************************************************************)
(* Program constants and bounds                                            *)
(***************************************************************************)
MAX_RETRIES == 10

MB == 1024 * 1024

\* Planner inputs: requested bounds 1..MaxRequested, core counts 0..MaxCores,
\* small sizes 1..MaxSmallSize besides the sizes around the tier limits.
MaxRequested == 17
MaxCores == 8
MaxSmallSize == 7

PlannerSizes ==
    (0..MaxSmallSize) \cup
    { 10 * MB - 1, 10 * MB, 10 * MB + 1,
      50 * MB - 1, 50 * MB, 50 * MB + 3,
      100 * MB, 100 * MB + 5,
      500 * MB - 1, 500 * MB, 500 * MB + 7, 1000 * MB + 11 }

Min(a, b) == IF a <= b THEN a ELSE b

(***************************************************************************)
(* ThreadPlanner: choose_optimal_threads and the ranges start() computes   *)
(***************************************************************************)
\* The size tier of choose_optimal_threads.
suggested_threads(file_size_bytes, default_threads) ==
    IF file_size_bytes < 10 * MB THEN 2
    ELSE IF file_size_bytes < 50 * MB THEN 4
    ELSE IF file_size_bytes < 500 * MB THEN 8
    ELSE Min(16, default_threads)

\* cores = psutil.cpu_count(logical=True) or 4
effective_cores(cpu_count) == IF cpu_count = 0 THEN 4 ELSE cpu_count

\* A planner whose size tiers include their upper limit (< written as <=).
choose_optimal_threads_TierOffByOne(file_size_bytes, default_threads, cpu_count) ==
    IF file_size_bytes = 0 THEN 1
    ELSE
        LET c == effective_cores(cpu_count)
            s0 == IF file_size_bytes <= 10 * MB THEN 2
                  ELSE IF file_size_bytes <= 50 * MB THEN 4
                  ELSE IF file_size_bytes <= 500 * MB THEN 8
                  ELSE Min(16, default_threads)
            s1 == IF c <= 2 THEN Min(s0, 4)
                  ELSE IF c <= 4 THEN Min(s0, 8)
                  ELSE s0
        IN  Min(s1, default_threads)

\* A planner that returns the capped tier without the final
\* min(suggested_threads, default_threads) of line 178.
choose_optimal_threads_NoRequestedCap(file_size_bytes, default_threads, cpu_count) ==
    IF file_size_bytes = 0 THEN 1
    ELSE
        LET c == effective_cores(cpu_count)
            s0 == suggested_threads(file_size_bytes, default_threads)
        IN  IF c <= 2 THEN Min(s0, 4)
            ELSE IF c <= 4 THEN Min(s0, 8)
            ELSE s0

choose_optimal_threads(file_size_bytes, default_threads, cpu_count) ==
    IF file_size_bytes = 0 THEN 1
    ELSE
        LET c == effective_cores(cpu_count)
            s0 == suggested_threads(file_size_bytes, default_threads)
            s1 == IF c <= 2 THEN Min(s0, 4)
                  ELSE IF c <= 4 THEN Min(s0, 8)
                  ELSE s0
        IN  Min(s1, default_threads)

\* A plan in which every range, the last one included, has length part_size.
RangeEnd_NoRemainder(i, size, n, psize) == i * psize + psize - 1

\* start(): the arguments (start, end) handed to worker i.
RangeStart(i, psize) == i * psize

RangeEnd(i, size, n, psize) ==
    IF i = n - 1 THEN size - 1 ELSE RangeStart(i, psize) + psize - 1

RangeLen(w) == w.end - w.start + 1

\* A worker thread as start() creates it (download_part not yet running).
NewWorker(i, size, n, psize) ==
    [ start      |-> RangeStart(i, psize),
      end        |-> RangeEnd(i, size, n, psize),
      pc         |-> "spawned",
      downloaded |-> 0,
      retries    |-> 0,
      rpos       |-> 0,
      chunk      |-> <<>>,
      percent    |-> 0 - 1,
      requests   |-> 0 ]

SpawnWorkers(size, n, psize) ==
    [ i \in 0..(n - 1) |-> NewWorker(i, size, n, psize) ]

NoWorkers == [ i \in {} |-> 0 ]

(***************************************************************************)
(* CapabilityProbe: FastDownloader.__init__                                *)
(***************************************************************************)
\* A bound on the sizes a server reports in the constructor's specification.
MaxProbeSize == 3

\* A server's answer to one request: a transport error (requests raises a
\* RequestException) or a response with a status, a Content-Length header
\* (cl = -1: no such header, cl = -2: a header that is not a number),
\* Accept-Ranges: bytes or not (ar) and the total of a Content-Range header
\* "bytes a-b/total" (cr = -1: no such header).
NetError == [ kind |-> "err", status |-> 0, cl |-> -1, ar |-> FALSE, cr |-> -1 ]

Response(status, cl, ar) ==
    [ kind |-> "resp", status |-> status, cl |-> cl, ar |-> ar, cr |-> -1 ]

\* 206 Partial Content: the body has cl bytes of a resource of `total` bytes.
RangeResponse(total, cl, ar) ==
    [ kind |-> "resp", status |-> 206, cl |-> cl, ar |-> ar, cr |-> total ]

Answers(sizes) ==
    {NetError}
    \cup { Response(st, cl, ar) :
             st \in {200, 206, 403, 404}, cl \in {-2, -1} \cup sizes, ar \in BOOLEAN }
    \cup { RangeResponse(t, 1, ar) : t \in sizes \ {0}, ar \in BOOLEAN }

\* int(response.headers.get("Content-Length", 0)), for a header int() accepts.
ContentLength(r) == IF r.cl = -1 THEN 0 ELSE r.cl

\* int() raises ValueError on a Content-Length that is not a number.
UnusableLength(r) == r.cl = -2

\* Lines 119-125 (and 110-115): the safe defaults of the degraded mode.
Degraded ==
    [ outcome |-> "ok", degraded |-> TRUE, file_size |-> 0, num_threads |-> 1,
      range_supported |-> FALSE, part_size |-> 0 ]

\* The constructor raised: no object exists.
CtorRaised(what) ==
    [ outcome |-> what, degraded |-> FALSE, file_size |-> 0, num_threads |-> 0,
      range_supported |-> FALSE, part_size |-> 0 ]

\* Lines 100-125: the handler of requests.RequestException. The alternative GET
\* either fails, or is not a 200, or is a 200, and then self.extract_file_size
\* (the method is named _extract_file_size) raises AttributeError, which the bare
\* except swallows: every path ends in the safe defaults.
ProbeFallback(alt) ==
    IF alt.kind = "resp" /\ alt.status = 200 THEN Degraded ELSE Degraded

\* Lines 94-98: part_size when ranges can be used, else one worker.
PlanWorkers(size, rs, n) ==
    IF rs /\ size > 0
    THEN [ outcome |-> "ok", degraded |-> FALSE, file_size |-> size, num_threads |-> n,
           range_supported |-> rs, part_size |-> size \div n ]
    ELSE [ outcome |-> "ok", degraded |-> FALSE, file_size |-> size, num_threads |-> 1,
           range_supported |-> rs, part_size |-> 0 ]

\* Lines 67-98 of a constructor that keeps the worker count choose_optimal_threads
\* gave when the server turns out not to support ranges.
ProbeRanges_KeepCount(response, size, in, req, cpu_count) ==
    LET n0       == IF size > 0 THEN choose_optimal_threads(size, req, cpu_count) ELSE 1
        needTest == ~response.ar /\ size > 0
    IN  IF needTest /\ in.test.kind = "err"
        THEN CtorRaised("RequestException")
        ELSE LET rs == IF needTest THEN in.test.status = 206 ELSE response.ar
             IN  [ outcome |-> "ok", degraded |-> FALSE, file_size |-> size,
                   num_threads |-> n0, range_supported |-> rs,
                   part_size |-> IF rs /\ size > 0 THEN size \div n0 ELSE 0 ]

\* Lines 67-98, with `response` the last response of lines 47-64 and `size` the
\* file_size read from it. "RequestException" is the range test's transport error.
ProbeRanges(response, size, in, req, cpu_count) ==
    LET n0       == IF size > 0 THEN choose_optimal_threads(size, req, cpu_count) ELSE 1
        needTest == ~response.ar /\ size > 0
    IN  IF needTest /\ in.test.kind = "err"
        THEN CtorRaised("RequestException")
        ELSE LET rs == IF needTest THEN in.test.status = 206 ELSE response.ar
                 n1 == IF needTest /\ ~rs THEN 1 ELSE n0
             IN  PlanWorkers(size, rs, n1)

\* Lines 45-98: the try block. outcome "RequestException" is handled by lines
\* 100-125; the outcomes "Exception" (line 61) and "ValueError" (int() at lines
\* 56 and 64) are not RequestExceptions and leave the constructor.
ProbeTry(in, req, cpu_count) ==
    IF in.head.kind = "err" THEN CtorRaised("RequestException")
    ELSE IF in.head.status = 403
    THEN IF in.fallback.kind = "err" THEN CtorRaised("RequestException")
         ELSE IF in.fallback.status \in {200, 206}
         THEN IF UnusableLength(in.fallback) THEN CtorRaised("ValueError")
              ELSE ProbeRanges(in.fallback, ContentLength(in.fallback), in, req, cpu_count)
         ELSE CtorRaised("Exception")
    ELSE IF in.head.status >= 400 THEN CtorRaised("RequestException")
    ELSE IF UnusableLength(in.head) THEN CtorRaised("ValueError")
    ELSE ProbeRanges(in.head, ContentLength(in.head), in, req, cpu_count)

\* FastDownloader.__init__ as a function of the server's answers.
Construct(in, req, cpu_count) ==
    LET t == ProbeTry(in, req, cpu_count)
    IN  IF t.outcome = "RequestException" THEN ProbeFallback(in.alt) ELSE t

ProbeInputs(sizes) ==
    [ head : Answers(sizes), fallback : Answers(sizes),
      test : {NetError, Response(206, 1, FALSE), Response(200, 1, FALSE)},
      alt  : {NetError, Response(200, 1, FALSE), Response(404, -1, FALSE)} ]

NoProbe == [ head |-> NetError, fallback |-> NetError, test |-> NetError, alt |-> NetError ]

\* The parts of the state a specification does not use.
NoFiles == [ p \in {} |-> <<>> ]

NoSingle == [ pc |-> "off", rpos |-> 0, chunk |-> <<>> ]

NoMerge == [ pc |-> "off", i |-> 0, called |-> FALSE ]

\* An exception: its kind and, for a worker's failure, the worker that recorded it.
Raised(kind, by) == [ kind |-> kind, by |-> by ]

NotRaised == Raised("none", 0)

\* No window: the queue, the history and the main loop of desktop_echo.py.
NoItems == [ i \in {} |-> 0 ]

NoCallbacks == [ finished |-> 0, next |-> 0 ]

\* get_recent_downloads has not been called.
NoQuery == [ called |-> FALSE, limit |-> 0, records |-> <<>> ]

UIIdle ==
    /\ recent = NoQuery
    /\ download_queue = NoItems
    /\ history = <<>>
    /\ current_download = 0
    /\ downloader = 0
    /\ after_queue = NoCallbacks
    /\ thread = NoItems

EngineIdle ==
    /\ paused = FALSE
    /\ exceptions = <<>>
    /\ sameDir = TRUE
    /\ fs = NoFiles
    /\ workers = NoWorkers
    /\ single = NoSingle
    /\ merge = NoMerge
    /\ raised = NotRaised
    /\ resource_size = 0
    /\ UIIdle

engineVars == <<paused, exceptions, sameDir, fs, workers, single, merge, raised,
                resource_size, uiVars>>

(***************************************************************************)
(* SpecPlanner: the planner applied to every (size, bound, cores)          *)
(***************************************************************************)
PlannerInit ==
    /\ pc = "plan_args"
    /\ probe = NoProbe
    /\ requested \in 1..MaxRequested
    /\ cores \in 0..MaxCores
    /\ file_size \in PlannerSizes
    /\ num_threads = 0
    /\ range_supported = TRUE
    /\ part_size = 0
    /\ EngineIdle

\* self.num_threads = self.choose_optimal_threads(self.file_size, num_threads)
PlannerChoose ==
    /\ pc = "plan_args"
    /\ num_threads' = choose_optimal_threads(file_size, requested, cores)
    /\ pc' = "plan_chosen"
    /\ UNCHANGED <<probe, requested, cores, file_size, range_supported, part_size, engineVars>>

\* self.part_size = self.file_size // self.num_threads (line 96, file_size > 0)
PlannerPartSize ==
    /\ pc = "plan_chosen"
    /\ file_size > 0
    /\ part_size' = file_size \div num_threads
    /\ pc' = "plan_sized"
    /\ UNCHANGED <<probe, requested, cores, file_size, num_threads, range_supported, engineVars>>

\* start(), lines 409-421: one (start, end) per worker.
PlannerRanges ==
    /\ pc = "plan_sized"
    /\ workers' = SpawnWorkers(file_size, num_threads, part_size)
    /\ pc' = "plan_ranges"
    /\ UNCHANGED <<probe, requested, cores, objVars, paused, exceptions, sameDir, fs,
                   single, merge, raised, resource_size, uiVars>>

PlannerNext == PlannerChoose \/ PlannerPartSize \/ PlannerRanges

SpecPlanner == PlannerInit /\ [][PlannerNext]_vars

(***************************************************************************)
(* SpecConstruct: the constructor applied to every probe outcome           *)
(***************************************************************************)
\* The sizes a server reports: the small ones and one of the largest tier.
ProbeSizes == (0..MaxProbeSize) \cup {600 * MB}

\* The bounds a caller passes as num_threads.
RequestedBounds == {1, 2, 3, MaxRequested}

ConstructInit ==
    /\ pc = "new"
    /\ probe \in ProbeInputs(ProbeSizes)
    /\ requested \in RequestedBounds
    /\ cores \in {0, 2, 8}
    /\ file_size = 0
    /\ num_threads = 0
    /\ range_supported = FALSE
    /\ part_size = 0
    /\ EngineIdle

\* FastDownloader(url, num_threads=requested): returns an object or raises.
ConstructCall ==
    /\ pc = "new"
    /\ LET o == Construct(probe, requested, cores)
       IN  /\ pc' = IF o.outcome = "ok"
                    THEN (IF o.degraded THEN "constructed_degraded" ELSE "constructed")
                    ELSE "ctor_raised"
           /\ raised' = IF o.outcome = "ok" THEN NotRaised ELSE Raised(o.outcome, 0)
           /\ file_size' = o.file_size
           /\ num_threads' = o.num_threads
           /\ range_supported' = o.range_supported
           /\ part_size' = o.part_size
    /\ UNCHANGED <<probe, requested, cores, paused, exceptions, sameDir, fs, workers,
                   single, merge, resource_size, uiVars>>

ConstructNext == ConstructCall

SpecConstruct == ConstructInit /\ [][ConstructNext]_vars

(***************************************************************************)
(* The download engine: files, server, workers                             *)
(***************************************************************************)
\* Bounds of the engine's specification: the resource has 1..MaxSize bytes, the
\* server hands over at most MaxChunk bytes per chunk, the caller asks for
\* 1..MaxThreadsArg workers.
MaxSize == 3
MaxChunk == 2
MaxThreadsArg == 2

\* The resource's bytes lo..hi; a byte is named by its offset.
Resource(lo, hi) == [ k \in 1..(hi - lo + 1) |-> lo + k - 1 ]

\* A file: absent, or present with its bytes.
Absent == [ exists |-> FALSE, data |-> <<>> ]

File(data) == [ exists |-> TRUE, data |-> data ]

\* A file some earlier download left under the final name.
OldFile == File(<< 0 - 1 >>)

\* Paths. download_path is never empty (line 21), so every file of the engine is
\* under it, except where the code uses the bare self.filename, which the process
\* resolves against its working directory.
FinalPath == <<"download_path", "filename", 0>>

TempPath == <<"download_path", "filename.temp", 0>>

PartPath(i) == <<"download_path", "filename.part", i>>

CwdFilePath == IF sameDir THEN FinalPath ELSE <<"cwd", "filename", 0>>

CwdPartPath(i) == IF sameDir THEN PartPath(i) ELSE <<"cwd", "filename.part", i>>

Paths(n) ==
    {FinalPath, TempPath, <<"cwd", "filename", 0>>} \cup
    { <<d, "filename.part", i>> : d \in {"download_path", "cwd"}, i \in 0..(n - 1) }

IsPrefix(a, b) == Len(a) <= Len(b) /\ SubSeq(b, 1, Len(a)) = a

Terminated(w) == w.pc \in {"done", "skipped", "failed"}

(***************************************************************************)
(* ChunkWorker: download_part, as operators on one worker's record w and   *)
(* its part file f                                                         *)
(***************************************************************************)
\* Lines 192-195: os.path.exists(part_file) and start + downloaded >= end.
PartComplete(w, f) == f.exists /\ w.start + Len(f.data) >= w.end

\* Line 202: the loop's condition.
LoopContinues(w) == w.downloaded < (w.end - w.start + 1) /\ w.retries < MAX_RETRIES

\* A worker that asks for its whole range again on every attempt.
range_start_NoResume(w) == w.start

\* Line 204: range_start = start + downloaded.
range_start(w) == w.start + w.downloaded

\* Lines 188-202: download_part up to its first request.
BeginPart(w, f) ==
    LET d == IF f.exists THEN Len(f.data) ELSE 0
    IN  IF PartComplete(w, f)
        THEN [w EXCEPT !.downloaded = d, !.pc = "skipped", !.percent = 100]
        ELSE LET v == [w EXCEPT !.downloaded = d]
             IN  [v EXCEPT !.pc = IF LoopContinues(v) THEN "request" ELSE "done"]

\* A handler that gives up one failure later (retries > MAX_RETRIES).
AfterFailure_OneMoreRetry(w) ==
    LET v == [w EXCEPT !.retries = w.retries + 1, !.chunk = <<>>]
    IN  IF v.retries > MAX_RETRIES
        THEN [ w |-> [v EXCEPT !.pc = "failed"], record |-> TRUE ]
        ELSE [ w |-> [v EXCEPT !.pc = IF v.downloaded < RangeLen(v) THEN "request"
                                      ELSE "done"],
               record |-> FALSE ]

\* Lines 250-263: the handler of any exception of an attempt; TRUE in `record`
\* means the failure is appended to self.exceptions.
AfterFailure(w) ==
    LET v == [w EXCEPT !.retries = w.retries + 1, !.chunk = <<>>]
    IN  IF v.retries >= MAX_RETRIES
        THEN [ w |-> [v EXCEPT !.pc = "failed"], record |-> TRUE ]
        ELSE [ w |-> [v EXCEPT !.pc = IF LoopContinues(v) THEN "request" ELSE "done"],
               record |-> FALSE ]

\* A poll that forgets the chunk it holds while the flag is set.
PausePoll_DropsChunk(w, flag) ==
    IF flag THEN [w EXCEPT !.chunk = <<>>, !.pc = "stream"] ELSE [w EXCEPT !.pc = "write"]

\* A poll that goes on to the write whatever it read.
PausePoll_IgnoresFlag(w, flag) == [w EXCEPT !.pc = "write"]

\* Lines 219-220: while self.paused: time.sleep(0.1), one reading of the flag.
PausePoll(w, flag) == IF flag THEN w ELSE [w EXCEPT !.pc = "write"]

\* Lines 229-230: percent = min(100, (downloaded / total_size) * 100), kept as
\* its integer part (it is 100 exactly when downloaded >= total_size).
Percent(downloaded, total_size) ==
    IF total_size > 0 THEN Min(100, (downloaded * 100) \div total_size) ELSE 0

\* Lines 225-246: f.write(chunk); downloaded += len(chunk); the sample
\* callback(part_index, speed, percent) of this chunk.
WriteChunk(w, f) ==
    LET d == w.downloaded + Len(w.chunk)
    IN  [ w |-> [w EXCEPT !.downloaded = d, !.chunk = <<>>, !.pc = "stream",
                          !.percent = Percent(d, RangeLen(w))],
          f |-> File(f.data \o w.chunk) ]

(***************************************************************************)
(* Merger: merge_parts                                                     *)
(***************************************************************************)
\* A merger that puts each part in front of what it has written.
MergeAppend_Reversed(temp, part) == File(part.data \o temp.data)

\* Lines 310-311: final_file.write(pf.read()).
MergeAppend(temp, part) == File(temp.data \o part.data)

\* A start() that goes on to merge whatever the workers recorded.
AfterJoin_IgnoresFailures(excs, n) == IF n > 1 THEN "merge" ELSE "complete"

\* Lines 427-432: what start() does once every worker has been joined.
AfterJoin(excs, n) ==
    IF excs # <<>> THEN "raise"
    ELSE IF n > 1 THEN "merge"
    ELSE "complete"

(***************************************************************************)
(* Spec: start() on a constructed downloader                               *)
(***************************************************************************)
\* The answers of a server that holds a resource of r bytes and reports its size,
\* or cannot be reached at all.
EngineProbes(r) ==
    [ head : {NetError, Response(200, r, TRUE), Response(200, r, FALSE)},
      fallback : {NetError},
      test : {Response(206, 1, FALSE), Response(200, r, FALSE)},
      alt : {NetError} ]

\* The part file an interrupted earlier run of the same plan can have left for a
\* worker: none, or a prefix of the worker's range.
LeftoverParts(w) ==
    {Absent} \cup { File(Resource(w.start, w.start + d - 1)) : d \in 0..RangeLen(w) }

\* The disks start() can find: an old file or none under the final name, in the
\* download directory and (when it is another directory) in the working directory;
\* leftovers of the same plan as part files; nothing else.
InitialDisks(same, size, n, psize) ==
    LET plan  == SpawnWorkers(size, n, psize)
        left  == { l \in [ 0..(n - 1) -> UNION { LeftoverParts(plan[i]) : i \in 0..(n - 1) } ] :
                     \A i \in 0..(n - 1) : l[i] \in LeftoverParts(plan[i]) }
        parts == IF psize > 0 THEN left ELSE { [ i \in 0..(n - 1) |-> Absent ] }
    IN  { [ p \in Paths(n) |->
              IF p = FinalPath THEN fin
              ELSE IF p = <<"cwd", "filename", 0>> THEN cw
              ELSE IF p[1] = "download_path" /\ p[2] = "filename.part" THEN l[p[3]]
              ELSE Absent ] :
            fin \in {Absent, OldFile},
            cw \in (IF same THEN {Absent} ELSE {Absent, OldFile}),
            l \in parts }

\* The state after FastDownloader(url, num_threads, None, download_path) returned.
\* The object does not keep the constructor's arguments.
InitDownloader ==
    /\ pc = "constructed"
    /\ probe = NoProbe
    /\ requested = 0
    /\ cores = 0
    /\ resource_size \in 1..MaxSize
    /\ \E in \in EngineProbes(resource_size), req \in 1..MaxThreadsArg, c \in {0, 8} :
         LET o == Construct(in, req, c)
         IN  /\ o.outcome = "ok"
             /\ file_size = o.file_size
             /\ num_threads = o.num_threads
             /\ range_supported = o.range_supported
             /\ part_size = o.part_size
    /\ paused = FALSE
    /\ exceptions = <<>>
    /\ workers = NoWorkers
    /\ single = NoSingle
    /\ merge = NoMerge
    /\ raised = NotRaised
    /\ UIIdle

Init ==
    /\ InitDownloader
    /\ sameDir \in BOOLEAN
    /\ fs \in InitialDisks(sameDir, file_size, num_threads,
                           IF range_supported /\ file_size > 0 THEN part_size ELSE 0)

\* start() never merges when it ran one worker (line 432): a run with one worker
\* whose download directory was the working directory left <filename>.part0 there,
\* holding the whole resource.
StalePart0 == File(Resource(0, resource_size - 1))

\* A later downloader of the same url with another download directory.
InitStale ==
    /\ InitDownloader
    /\ sameDir = FALSE
    /\ \E d \in InitialDisks(FALSE, file_size, num_threads,
                              IF range_supported /\ file_size > 0 THEN part_size ELSE 0) :
         fs = [d EXCEPT ![<<"cwd", "filename.part", 0>>] = StalePart0]

ctorVars == <<probe, requested, cores, file_size, num_threads, range_supported, part_size,
              sameDir, resource_size, uiVars>>

Running == pc \in {"join", "merging", "verify", "single", "single_fallback"}

\* start(), lines 405-421: the single-stream path, or one thread per range.
Start ==
    /\ pc = "constructed"
    /\ IF ~range_supported \/ file_size = 0
       THEN /\ pc' = "single"
            /\ single' = [single EXCEPT !.pc = "request"]
            /\ UNCHANGED workers
       ELSE /\ pc' = "join"
            /\ workers' = SpawnWorkers(file_size, num_threads, part_size)
            /\ UNCHANGED single
    /\ UNCHANGED <<ctorVars, paused, exceptions, fs, merge, raised>>

\* pause() and resume(), called from another thread while start() runs.
Pause ==
    /\ Running
    /\ ~paused
    /\ paused' = TRUE
    /\ UNCHANGED <<pc, ctorVars, exceptions, fs, workers, single, merge, raised>>

\* A resume() that leaves the flag set.
Resume_KeepsFlag ==
    /\ Running
    /\ paused
    /\ paused' = TRUE
    /\ UNCHANGED <<pc, ctorVars, exceptions, fs, workers, single, merge, raised>>

Resume ==
    /\ Running
    /\ paused
    /\ paused' = FALSE
    /\ UNCHANGED <<pc, ctorVars, exceptions, fs, workers, single, merge, raised>>

workerFrame == <<pc, ctorVars, paused, single, merge, raised>>

\* download_part starts running: lines 180-202.
WorkerBegin(i) ==
    /\ pc = "join"
    /\ workers[i].pc = "spawned"
    /\ workers' = [workers EXCEPT ![i] = BeginPart(workers[i], fs[PartPath(i)])]
    /\ UNCHANGED <<workerFrame, exceptions, fs>>

\* Line 207: self.session.get(...) is called once more.
IssueRequest(w) == [w EXCEPT !.requests = w.requests + 1]

\* A handler whose tenth failure also stops every other worker.
WorkerFails_StopsOthers(i, w) ==
    LET a == AfterFailure(w)
    IN  /\ workers' = [ j \in DOMAIN workers |->
                          IF j = i THEN a.w
                          ELSE IF a.record /\ ~Terminated(workers[j])
                               THEN [workers[j] EXCEPT !.pc = "done"]
                               ELSE workers[j] ]
        /\ exceptions' = IF a.record THEN Append(exceptions, Raised("worker", i))
                         ELSE exceptions

\* The exception handler of worker i runs on its locals w: lines 250-263.
WorkerFails(i, w) ==
    LET a == AfterFailure(w)
    IN  /\ workers' = [workers EXCEPT ![i] = a.w]
        /\ exceptions' = IF a.record THEN Append(exceptions, Raised("worker", i))
                         ELSE exceptions

\* Lines 204-215: the ranged request. It fails (transport error, 403, error
\* status), or the response opens and the part file is opened for appending.
WorkerRequest(i) ==
    /\ pc = "join"
    /\ workers[i].pc = "request"
    /\ \/ /\ WorkerFails(i, IssueRequest(workers[i]))
          /\ UNCHANGED <<workerFrame, fs>>
       \/ /\ workers' = [workers EXCEPT ![i] =
                             [IssueRequest(workers[i]) EXCEPT
                                 !.pc = "stream", !.rpos = range_start(workers[i])]]
          /\ fs' = [fs EXCEPT ![PartPath(i)] = File(fs[PartPath(i)].data)]
          /\ UNCHANGED <<workerFrame, exceptions>>

\* Line 217: the next step of r.iter_content. The server hands over the next
\* bytes of the range it was asked for, or the stream ends (at the end of the
\* range, or before it without an error), or the stream raises.
WorkerNextChunk(i) ==
    /\ pc = "join"
    /\ workers[i].pc = "stream"
    /\ LET w == workers[i]
       IN  \/ \E c \in 1..MaxChunk :
                /\ w.rpos + c - 1 <= w.end
                /\ workers' = [workers EXCEPT ![i].chunk = Resource(w.rpos, w.rpos + c - 1),
                                              ![i].rpos = w.rpos + c,
                                              ![i].pc = "poll"]
                /\ UNCHANGED <<workerFrame, exceptions, fs>>
           \/ /\ workers' = [workers EXCEPT ![i].pc = "done"]
              /\ UNCHANGED <<workerFrame, exceptions, fs>>
           \/ /\ WorkerFails(i, workers[i])
              /\ UNCHANGED <<workerFrame, fs>>

\* Lines 219-220: the flag is read and found clear (found set, the worker sleeps
\* and reads it again).
WorkerPollReading(i, flag) ==
    /\ pc = "join"
    /\ workers[i].pc = "poll"
    /\ workers' = [workers EXCEPT ![i] = PausePoll(workers[i], flag)]
    /\ UNCHANGED <<workerFrame, exceptions, fs>>

WorkerPoll(i) == WorkerPollReading(i, paused)

\* A worker that appends every chunk to part file 0 and reports on slot 0.
WorkerWrite_FirstSlot(i) ==
    /\ pc = "join"
    /\ workers[i].pc = "write"
    /\ LET r == WriteChunk(workers[i], fs[PartPath(0)])
       IN  /\ workers' = [workers EXCEPT ![i] = [r.w EXCEPT !.percent = workers[i].percent],
                                         ![0].percent = r.w.percent]
           /\ fs' = [fs EXCEPT ![PartPath(0)] = r.f]
    /\ UNCHANGED <<workerFrame, exceptions>>

\* Lines 225-246: the chunk is appended to the part file.
WorkerWrite(i) ==
    /\ pc = "join"
    /\ workers[i].pc = "write"
    /\ LET r == WriteChunk(workers[i], fs[PartPath(i)])
       IN  /\ workers' = [workers EXCEPT ![i] = r.w]
           /\ fs' = [fs EXCEPT ![PartPath(i)] = r.f]
    /\ UNCHANGED <<workerFrame, exceptions>>

Worker(i) ==
    \/ WorkerBegin(i)
    \/ WorkerRequest(i)
    \/ WorkerNextChunk(i)
    \/ WorkerPoll(i)
    \/ WorkerWrite(i)

\* A start() that joins only its first thread before it goes on.
Joined_FirstThreadOnly ==
    /\ pc = "join"
    /\ Terminated(workers[0])
    /\ LET next == AfterJoin(exceptions, num_threads)
       IN  /\ pc' = CASE next = "raise" -> "failed"
                      [] next = "merge" -> "merging"
                      [] OTHER -> "done"
           /\ raised' = IF next = "raise" THEN exceptions[1] ELSE raised
           /\ merge' = IF next = "merge"
                       THEN [pc |-> "open", i |-> 0, called |-> TRUE]
                       ELSE merge
    /\ UNCHANGED <<ctorVars, paused, exceptions, fs, workers, single>>

\* Lines 423-432: every thread has been joined.
Joined ==
    /\ pc = "join"
    /\ \A i \in DOMAIN workers : Terminated(workers[i])
    /\ LET next == AfterJoin(exceptions, num_threads)
       IN  /\ pc' = CASE next = "raise" -> "failed"
                      [] next = "merge" -> "merging"
                      [] OTHER -> "done"
           /\ raised' = IF next = "raise" THEN exceptions[1] ELSE raised
           /\ merge' = IF next = "merge"
                       THEN [pc |-> "open", i |-> 0, called |-> TRUE]
                       ELSE merge
    /\ UNCHANGED <<ctorVars, paused, exceptions, fs, workers, single>>

mergeFrame == <<ctorVars, paused, exceptions, workers, single>>

\* merge_parts, lines 276-289: the staging file is created empty.
MergeOpen ==
    /\ pc = "merging"
    /\ merge.pc = "open"
    /\ fs' = [fs EXCEPT ![TempPath] = File(<<>>)]
    /\ merge' = [merge EXCEPT !.pc = "part"]
    /\ UNCHANGED <<pc, raised, mergeFrame>>

\* A merge loop that appends each part and leaves it on disk (no os.remove).
MergePart_KeepsParts ==
    /\ pc = "merging"
    /\ merge.pc = "part"
    /\ LET i    == merge.i
           here == fs[PartPath(i)].exists
           from == IF here THEN PartPath(i) ELSE CwdPartPath(i)
       IN  IF fs[from].exists
           THEN /\ fs' = [fs EXCEPT ![TempPath] = MergeAppend(fs[TempPath], fs[from])]
                /\ merge' = [merge EXCEPT !.i = i + 1,
                                          !.pc = IF i + 1 = num_threads THEN "replace"
                                                 ELSE "part"]
                /\ UNCHANGED <<pc, raised>>
           ELSE /\ merge' = [merge EXCEPT !.pc = "returned_false"]
                /\ pc' = "failed"
                /\ raised' = Raised("merge_failed", 0)
                /\ UNCHANGED fs
    /\ UNCHANGED mergeFrame

\* Lines 290-312: one turn of the loop. A part missing from the download directory
\* is looked for in the working directory; found nowhere, merge_parts returns
\* False (inside the with block and the try: the staging file stays) and start()
\* raises (line 447).
MergePart ==
    /\ pc = "merging"
    /\ merge.pc = "part"
    /\ LET i    == merge.i
           here == fs[PartPath(i)].exists
           from == IF here THEN PartPath(i) ELSE CwdPartPath(i)
       IN  IF fs[from].exists
           THEN /\ fs' = [fs EXCEPT ![TempPath] = MergeAppend(fs[TempPath], fs[from]),
                                    ![from] = Absent]
                /\ merge' = [merge EXCEPT !.i = i + 1,
                                          !.pc = IF i + 1 = num_threads THEN "replace"
                                                 ELSE "part"]
                /\ UNCHANGED <<pc, raised>>
           ELSE /\ merge' = [merge EXCEPT !.pc = "returned_false"]
                /\ pc' = "failed"
                /\ raised' = Raised("merge_failed", 0)
                /\ UNCHANGED fs
    /\ UNCHANGED mergeFrame

\* Lines 337-345: an OSError of os.remove or os.rename is caught; the staging file
\* is removed, merge_parts returns False and start() raises (line 447).
MergeError ==
    /\ fs' = [fs EXCEPT ![TempPath] = Absent]
    /\ merge' = [merge EXCEPT !.pc = "returned_false"]
    /\ pc' = "failed"
    /\ raised' = Raised("merge_failed", 0)

\* Lines 315-317: an existing final file is removed, or os.remove raises.
MergeReplace ==
    /\ pc = "merging"
    /\ merge.pc = "replace"
    /\ \/ /\ fs' = [fs EXCEPT ![FinalPath] = Absent]
          /\ merge' = [merge EXCEPT !.pc = "rename"]
          /\ UNCHANGED <<pc, raised>>
       \/ /\ fs[FinalPath].exists
          /\ MergeError
    /\ UNCHANGED mergeFrame

\* Lines 320-331: the staging file is renamed to the final file, which then
\* exists: merge_parts returns True. Or os.rename raises.
MergeRename ==
    /\ pc = "merging"
    /\ merge.pc = "rename"
    /\ \/ /\ fs' = [fs EXCEPT ![FinalPath] = fs[TempPath], ![TempPath] = Absent]
          /\ merge' = [merge EXCEPT !.pc = "returned_true"]
          /\ pc' = "verify"
          /\ UNCHANGED raised
       \/ MergeError
    /\ UNCHANGED mergeFrame

\* start(), lines 434-445: the size check, made on the bare self.filename.
Verify ==
    /\ pc = "verify"
    /\ IF fs[CwdFilePath].exists
       THEN IF file_size > 0 /\ Len(fs[CwdFilePath].data) # file_size
            THEN /\ pc' = "single_fallback"
                 /\ single' = [single EXCEPT !.pc = "request"]
                 /\ UNCHANGED raised
            ELSE /\ pc' = "done"
                 /\ UNCHANGED <<single, raised>>
       ELSE /\ pc' = "failed"
            /\ raised' = Raised("final_not_created", 0)
            /\ UNCHANGED single
    /\ UNCHANGED <<ctorVars, paused, exceptions, fs, workers, merge>>

singleFrame == <<ctorVars, paused, exceptions, workers, merge>>

InSingle == pc \in {"single", "single_fallback"}

\* download_single_thread raises; start() re-raises (lines 396-398, 455-457).
SingleRaises ==
    /\ pc' = "failed"
    /\ raised' = Raised("single_failed", 0)
    /\ single' = [single EXCEPT !.pc = "raised", !.chunk = <<>>]

\* Lines 357-370: the request without a range. It fails, or the response opens
\* and open(self.filename, "wb") creates or truncates the file.
SingleRequest ==
    /\ InSingle
    /\ single.pc = "request"
    /\ \/ /\ SingleRaises
          /\ UNCHANGED fs
       \/ /\ single' = [single EXCEPT !.pc = "stream", !.rpos = 0]
          /\ fs' = [fs EXCEPT ![CwdFilePath] = File(<<>>)]
          /\ UNCHANGED <<pc, raised>>
    /\ UNCHANGED singleFrame

\* Line 371: the next step of r.iter_content over the whole resource.
SingleNextChunk ==
    /\ InSingle
    /\ single.pc = "stream"
    /\ \/ \E c \in 1..MaxChunk :
            /\ single.rpos + c - 1 <= resource_size - 1
            /\ single' = [single EXCEPT !.chunk = Resource(single.rpos, single.rpos + c - 1),
                                        !.rpos = single.rpos + c,
                                        !.pc = "poll"]
            /\ UNCHANGED <<pc, raised>>
       \/ /\ single' = [single EXCEPT !.pc = "returned"]
          /\ pc' = "done"
          /\ UNCHANGED raised
       \/ SingleRaises
    /\ UNCHANGED <<fs, singleFrame>>

\* Lines 372-373: the flag is read.
SinglePollReading(flag) ==
    /\ InSingle
    /\ single.pc = "poll"
    /\ single' = IF flag THEN single ELSE [single EXCEPT !.pc = "write"]
    /\ UNCHANGED <<pc, raised, fs, singleFrame>>

SinglePoll == SinglePollReading(paused)

\* Lines 378-379: f.write(chunk).
SingleWrite ==
    /\ InSingle
    /\ single.pc = "write"
    /\ fs' = [fs EXCEPT ![CwdFilePath] = File(fs[CwdFilePath].data \o single.chunk)]
    /\ single' = [single EXCEPT !.pc = "stream", !.chunk = <<>>]
    /\ UNCHANGED <<pc, raised, singleFrame>>

Next ==
    \/ Start
    \/ Pause
    \/ Resume
    \/ \E i \in DOMAIN workers : Worker(i)
    \/ Joined
    \/ MergeOpen
    \/ MergePart
    \/ MergeReplace
    \/ MergeRename
    \/ Verify
    \/ SingleRequest
    \/ SingleNextChunk
    \/ SinglePoll
    \/ SingleWrite

Spec == Init /\ [][Next]_vars

\* start() with a part file of an earlier run in the working directory.
SpecStale == InitStale /\ [][Next]_vars

(***************************************************************************)
(* SpecUI: the download queue of desktop_echo.py                           *)
(***************************************************************************)
\* The number of items in the queue.
MaxItems == 2

Items == 1..MaxItems

\* str(e) of the exceptions FastDownloader's constructor and start() raise.
CtorErrors == {"Server returned 403"}

StartErrors == {"Merging parts failed"}

\* _run_download_item, lines 1358-1366: error_message as it is after the
\* except block has rewritten str(e).
ReportedMessage(text) ==
    IF text = "Server returned 403"
    THEN "Server blocked the download (403 Forbidden) - The website may block download managers"
    ELSE text

\* DownloadItem.__init__: the fields of an item the handlers write.
QueuedItem == [ status |-> "Queued", error_message |-> "" ]

\* A _run_download_item thread that has not been started, and its locals.
NoThread ==
    [ pc |-> "none", download_successful |-> FALSE, error_message |-> "",
      raised |-> FALSE ]

\* download_history.py, lines 55-56 and line 45: the literals 1000 and 5.
HISTORY_LIMIT == 1000

DURATION_WINDOW == 5

\* DownloadHistory.add_record, lines 32-41: the record appended (its url names
\* the item; duration FALSE stands for None).
Record(i, status, error_msg) ==
    [ item |-> i, status |-> status, error_msg |-> error_msg, duration |-> FALSE ]

\* Python's h[start:]: a negative start counts from the end, and both ends are
\* clipped to the list.
slice_from(h, start) ==
    LET n == Len(h)
        b == IF start < 0 THEN (IF n + start < 0 THEN 0 ELSE n + start)
             ELSE (IF start > n THEN n ELSE start)
    IN  SubSeq(h, b + 1, n)

\* Python's h[::-1].
reversed(h) == [ k \in 1..Len(h) |-> h[Len(h) - k + 1] ]

\* Lines 44-50: a Completed record gives a duration to the latest of the last
\* five records that has the same url and no duration yet.
update_duration(h, i, status) ==
    LET K == { k \in 1..Len(h) : /\ k > Len(h) - DURATION_WINDOW
                                 /\ h[k].item = i
                                 /\ ~h[k].duration }
    IN  IF status = "Completed" /\ K # {}
        THEN [h EXCEPT ![CHOOSE k \in K : \A j \in K : j <= k].duration = TRUE]
        ELSE h

\* A history whose add_record appends every record twice.
add_record_Twice(h, i, status, error_msg) ==
    h \o << Record(i, status, error_msg), Record(i, status, error_msg) >>

\* A history that keeps its first HISTORY_LIMIT records and drops the new one.
add_record_KeepsOldest(h, i, status, error_msg) ==
    LET full == Append(update_duration(h, i, status), Record(i, status, error_msg))
    IN  IF Len(full) > HISTORY_LIMIT THEN SubSeq(full, 1, HISTORY_LIMIT) ELSE full

\* add_record, lines 30-58: self.history after the call.
add_record(h, i, status, error_msg) ==
    LET full == Append(update_duration(h, i, status), Record(i, status, error_msg))
    IN  IF Len(full) > HISTORY_LIMIT THEN slice_from(full, 0 - HISTORY_LIMIT) ELSE full

\* get_recent_downloads(limit), line 62: self.history[-limit:][::-1].
get_recent_downloads(h, limit) == reversed(slice_from(h, 0 - limit))

\* clear_history, lines 125-128.
clear_history(h) == <<>>

UIInit ==
    /\ pc = "ui"
    /\ probe = NoProbe
    /\ requested = 0
    /\ cores = 0
    /\ file_size = 0
    /\ num_threads = 0
    /\ range_supported = FALSE
    /\ part_size = 0
    /\ paused = FALSE
    /\ exceptions = <<>>
    /\ sameDir = TRUE
    /\ fs = NoFiles
    /\ workers = NoWorkers
    /\ single = NoSingle
    /\ merge = NoMerge
    /\ raised = NotRaised
    /\ resource_size = 0
    /\ download_queue = [ i \in Items |-> QueuedItem ]
    /\ history = <<>>
    /\ recent = NoQuery
    /\ current_download = 0
    /\ downloader = 0
    /\ after_queue = NoCallbacks
    /\ thread = [ i \in Items |-> NoThread ]

uiFrame == <<recent, pc, probe, requested, cores, objVars, exceptions, sameDir, fs,
             workers, single, merge, raised, resource_size>>

\* The loop taken from the other end: the last item with status "Queued", or 0.
FirstQueued_Last ==
    IF \E i \in Items : download_queue[i].status = "Queued"
    THEN CHOOSE i \in Items :
            /\ download_queue[i].status = "Queued"
            /\ \A j \in Items : download_queue[j].status = "Queued" => j <= i
    ELSE 0

\* The first item of the queue with status "Queued", or 0.
FirstQueued ==
    IF \E i \in Items : download_queue[i].status = "Queued"
    THEN CHOOSE i \in Items :
            /\ download_queue[i].status = "Queued"
            /\ \A j \in Items : download_queue[j].status = "Queued" => i <= j
    ELSE 0

\* _start_download_item(item), lines 1239-1262.
start_download_item(i) ==
    /\ current_download' = i
    /\ download_queue' = [download_queue EXCEPT ![i] =
                              [status |-> "Downloading", error_message |-> ""]]
    /\ thread' = [thread EXCEPT ![i].pc = "construct"]

\* start_download, lines 1222-1237: the Start button, which _start_download_item
\* disables and _download_item_finished enables.
start_download ==
    /\ pc = "ui"
    /\ current_download = 0
    /\ FirstQueued # 0
    /\ start_download_item(FirstQueued)
    /\ UNCHANGED <<history, downloader, after_queue, paused, uiFrame>>

\* _run_download_item, lines 1269-1291: FastDownloader(...) raises, or returns and
\* the object becomes self.downloader.
RunConstruct(i) ==
    /\ thread[i].pc = "construct"
    /\ \/ \E e \in CtorErrors :
            /\ thread' = [thread EXCEPT ![i].pc = "finally", ![i].raised = TRUE,
                                        ![i].error_message = ReportedMessage(e)]
            /\ UNCHANGED downloader
       \/ /\ thread' = [thread EXCEPT ![i].pc = "start"]
          /\ downloader' = i
    /\ UNCHANGED <<download_queue, history, current_download, after_queue, paused, uiFrame>>

\* Line 1294: downloader.start() raises or returns.
RunStart(i) ==
    /\ thread[i].pc = "start"
    /\ \/ \E e \in StartErrors :
            thread' = [thread EXCEPT ![i].pc = "finally", ![i].raised = TRUE,
                                     ![i].error_message = ReportedMessage(e)]
       \/ thread' = [thread EXCEPT ![i].pc = "check"]
    /\ UNCHANGED <<download_queue, history, current_download, downloader, after_queue,
                   paused, uiFrame>>

\* Lines 1296-1354: the file is looked for; found with bytes, found empty, not
\* found.
RunCheck(i) ==
    /\ thread[i].pc = "check"
    /\ \/ thread' = [thread EXCEPT ![i].pc = "finally", ![i].download_successful = TRUE]
       \/ \E m \in {"Downloaded file is empty (0 bytes)",
                    "Download completed but file not found"} :
            thread' = [thread EXCEPT ![i].pc = "finally", ![i].error_message = m]
    /\ UNCHANGED <<download_queue, history, current_download, downloader, after_queue,
                   paused, uiFrame>>

\* Lines 1368-1403: the finally block.
RunFinally(i) ==
    /\ thread[i].pc = "finally"
    /\ IF thread[i].download_successful
       THEN /\ download_queue' = [download_queue EXCEPT ![i].status = "Completed"]
            /\ history' = add_record(history, i, "Completed", "")
       ELSE /\ download_queue' = [download_queue EXCEPT ![i] =
                    [status |-> "Error", error_message |-> thread[i].error_message]]
            /\ history' = add_record(history, i, "Error", thread[i].error_message)
    /\ after_queue' = [after_queue EXCEPT !.finished = @ + 1]
    /\ thread' = [thread EXCEPT ![i].pc = "exited"]
    /\ UNCHANGED <<current_download, downloader, paused, uiFrame>>

Run(i) == RunConstruct(i) \/ RunStart(i) \/ RunCheck(i) \/ RunFinally(i)

\* _download_item_finished, lines 1662-1679, run by the main loop.
download_item_finished ==
    /\ pc = "ui"
    /\ after_queue.finished > 0
    /\ current_download' = 0
    /\ downloader' = 0
    /\ after_queue' = [after_queue EXCEPT !.finished = @ - 1, !.next = @ + 1]
    /\ UNCHANGED <<download_queue, history, thread, paused, uiFrame>>

\* _start_next_download, lines 1681-1689, run by the main loop a second later.
start_next_download ==
    /\ pc = "ui"
    /\ after_queue.next > 0
    /\ after_queue' = [after_queue EXCEPT !.next = @ - 1]
    /\ IF FirstQueued # 0
       THEN start_download_item(FirstQueued)
       ELSE UNCHANGED <<current_download, download_queue, thread>>
    /\ UNCHANGED <<history, downloader, paused, uiFrame>>

\* pause_download, lines 1702-1715; `paused` is self.downloader_paused, set
\* together with the flag of self.downloader.
pause_download ==
    /\ pc = "ui"
    /\ current_download # 0
    /\ download_queue[current_download].status = "Downloading"
    /\ downloader # 0
    /\ paused' = TRUE
    /\ download_queue' = [download_queue EXCEPT ![current_download].status = "Paused"]
    /\ UNCHANGED <<history, current_download, downloader, after_queue, thread, uiFrame>>

\* resume_download, lines 1717-1730.
resume_download ==
    /\ pc = "ui"
    /\ current_download # 0
    /\ download_queue[current_download].status = "Paused"
    /\ downloader # 0
    /\ paused' = FALSE
    /\ download_queue' = [download_queue EXCEPT ![current_download].status = "Downloading"]
    /\ UNCHANGED <<history, current_download, downloader, after_queue, thread, uiFrame>>

\* cancel_current_download, lines 1732-1754, the dialog answered yes: the item
\* is relabelled and _download_item_finished runs at once; the thread goes on.
cancel_current_download ==
    /\ pc = "ui"
    /\ current_download # 0
    /\ history' = add_record(history, current_download, "Cancelled",
                             "Download cancelled by user")
    /\ download_queue' = [download_queue EXCEPT ![current_download].status = "Cancelled"]
    /\ current_download' = 0
    /\ downloader' = 0
    /\ after_queue' = [after_queue EXCEPT !.next = @ + 1]
    /\ UNCHANGED <<thread, paused, uiFrame>>

UINext ==
    \/ start_download
    \/ \E i \in Items : Run(i)
    \/ download_item_finished
    \/ start_next_download
    \/ pause_download
    \/ resume_download
    \/ cancel_current_download

SpecUI == UIInit /\ [][UINext]_vars

(***************************************************************************)
(* DownloadHistory (src/src/download_history.py) on its own                *)
(***************************************************************************)
MaxLoaded == 2

MaxAdds == 2

MaxUrls == 2

MaxLimit == 2

\* The status values the application writes.
Statuses == {"Completed", "Error", "Cancelled"}

\* _load_history, lines 12-20: a file of n records written by earlier sessions;
\* record k has the url 0 - k, which no record of this session has.
Loaded(n) == [ k \in 1..n |-> Record(0 - k, "Completed", "") ]

LoadedSizes == (0..MaxLoaded) \cup {HISTORY_LIMIT - 1, HISTORY_LIMIT}

Limits == (0..MaxLimit) \cup {HISTORY_LIMIT}

\* The records of this session that h holds.
AddedHere(h) == Cardinality({ k \in 1..Len(h) : h[k].item > 0 })

HistoryInit ==
    /\ pc = "history"
    /\ probe = NoProbe
    /\ requested = 0
    /\ cores = 0
    /\ file_size = 0
    /\ num_threads = 0
    /\ range_supported = FALSE
    /\ part_size = 0
    /\ paused = FALSE
    /\ exceptions = <<>>
    /\ sameDir = TRUE
    /\ fs = NoFiles
    /\ workers = NoWorkers
    /\ single = NoSingle
    /\ merge = NoMerge
    /\ raised = NotRaised
    /\ resource_size = 0
    /\ download_queue = NoItems
    /\ current_download = 0
    /\ downloader = 0
    /\ after_queue = NoCallbacks
    /\ thread = NoItems
    /\ recent = NoQuery
    /\ \E n \in LoadedSizes : history = Loaded(n)

historyFrame == <<pc, probe, requested, cores, objVars, paused, exceptions, sameDir, fs,
                  workers, single, merge, raised, resource_size, download_queue,
                  current_download, downloader, after_queue, thread>>

\* A caller adds a record (at most MaxAdds records of this session at a time).
HistoryAdd ==
    /\ pc = "history"
    /\ AddedHere(history) < MaxAdds
    /\ \E u \in 1..MaxUrls, st \in Statuses :
           history' = add_record(history, u, st, "")
    /\ recent' = NoQuery
    /\ UNCHANGED historyFrame

HistoryClear ==
    /\ pc = "history"
    /\ history' = clear_history(history)
    /\ recent' = NoQuery
    /\ UNCHANGED historyFrame

HistoryQuery ==
    /\ pc = "history"
    /\ \E l \in Limits :
           recent' = [ called |-> TRUE, limit |-> l,
                       records |-> get_recent_downloads(history, l) ]
    /\ UNCHANGED <<history, historyFrame>>

HistoryNext ==
    \/ HistoryAdd
    \/ HistoryClear
    \/ HistoryQuery

SpecHistory == HistoryInit /\ [][HistoryNext]_vars

(***************************************************************************)
(* C1, C10, C9                                                             *)
(***************************************************************************)
Planned == pc = "plan_ranges"

\* The number of planned ranges that hold byte offset b.
Covering(b) == Cardinality({ i \in DOMAIN workers : workers[i].start <= b /\ b <= workers[i].end })

\* C1: for every size S > 0 and every worker count N the constructor chooses, the
\* ranges start() computes partition [0, S-1]: range 0 starts at 0, each range
\* starts one past the end of the one before, the last range ends at S-1 (and, where
\* the offsets can be enumerated, each offset lies in exactly one range).
C1_RangesPartition ==
    Planned =>
        /\ DOMAIN workers = 0..(num_threads - 1)
        /\ num_threads >= 1
        /\ workers[0].start = 0
        /\ \A i \in 1..(num_threads - 1) : workers[i].start = workers[i - 1].end + 1
        /\ workers[num_threads - 1].end = file_size - 1
        /\ \A i \in 0..(num_threads - 2) : RangeLen(workers[i]) = file_size \div num_threads
        /\ file_size <= MaxSmallSize + 1 => \A b \in 0..(file_size - 1) : Covering(b) = 1

\* A plan of several workers whose size leaves a remainder.
C1_Witness ==
    /\ Planned
    /\ num_threads >= 8
    /\ file_size % num_threads # 0
    /\ RangeLen(workers[num_threads - 1]) > RangeLen(workers[0])

\* The claim's definition of the planner.
TierOf(size, req) ==
    IF size = 0 THEN 1
    ELSE IF size < 10 * MB THEN 2
    ELSE IF size < 50 * MB THEN 4
    ELSE IF size < 500 * MB THEN 8
    ELSE Min(16, req)

CappedByCores(n, c) == IF c <= 2 THEN Min(n, 4) ELSE IF c <= 4 THEN Min(n, 8) ELSE n

\* C10: choose_optimal_threads returns min(tier(size), requested bound, core cap),
\* for every size, every requested bound >= 1 and every known core count >= 1; and
\* 100 MB on 8 cores with bound 8 gives 8 workers.
C10_ChooseOptimalThreads ==
    pc = "plan_chosen" /\ cores >= 1 =>
        /\ num_threads = Min(CappedByCores(TierOf(file_size, requested), cores), requested)
        /\ (file_size = 100 * MB /\ cores = 8 /\ requested = 8) => num_threads = 8

C10_Witness ==
    /\ pc = "plan_chosen"
    /\ file_size = 100 * MB
    /\ cores = 8
    /\ requested = 8
    /\ num_threads = 8

\* C9: whenever the constructor returns with range support false, the worker count
\* is 1, whatever the requested bound and the probed size, degraded mode included.
C9_NoRangeSupportOneWorker ==
    pc \in {"constructed", "constructed_degraded"} /\ ~range_supported => num_threads = 1

\* A server with a known size above 0 that answers the range test without 206,
\* asked for more than one worker.
C9_Witness ==
    /\ pc = "constructed"
    /\ ~range_supported
    /\ file_size > 0
    /\ requested > 1
    /\ num_threads = 1

(***************************************************************************)
(* C2 - C8                                                                 *)
(***************************************************************************)
\* The range start() plans for worker i, whether or not the worker was spawned.
PlannedLen(i) ==
    RangeEnd(i, file_size, num_threads, part_size) - RangeStart(i, part_size) + 1

MultiWorkerPath == range_supported /\ file_size > 0

\* The worker's own account says the range is complete: the loop of line 202 has
\* nothing left to download, and no failure was recorded.
CompletedRange(w) == w.pc \in {"done", "skipped"} /\ w.downloaded = RangeLen(w)

\* C2: whenever start() returns normally on the multi-worker path (range support
\* true, probed size S > 0), the final file <downloadPath>/<filename> exists and
\* its size is S.
C2_FinalFileHasProbedSize ==
    (pc = "done" /\ MultiWorkerPath) =>
        /\ fs[FinalPath].exists
        /\ Len(fs[FinalPath].data) = file_size

C4_Step ==
    exceptions' # <<>> =>
        /\ pc' \in {"join", "failed"}
        /\ ~merge'.called
        /\ pc' = "failed" =>
            /\ raised' = exceptions'[1]
            /\ \A i \in DOMAIN workers' : Terminated(workers'[i])
        /\ fs'[FinalPath] = fs[FinalPath]
        /\ fs'[TempPath] = fs[TempPath]
        /\ \A i \in DOMAIN workers :
            fs[PartPath(i)].exists =>
                /\ fs'[PartPath(i)].exists
                /\ IsPrefix(fs[PartPath(i)].data, fs'[PartPath(i)].data)

\* C4, for every step of start(): a recorded failure leads to raising it, never to
\* a merge, and leaves the part files and the final file in place.
C4_RetryExhaustionFailsStart == [][C4_Step]_vars

\* Worker 1 exhausted its retries; worker 0 finished its range, and its part file
\* is still there when start() has raised worker 1's failure.
C4_Witness ==
    /\ pc = "failed"
    /\ exceptions = << Raised("worker", 1) >>
    /\ raised = Raised("worker", 1)
    /\ workers[0].pc = "done"
    /\ fs[PartPath(0)] = File(Resource(workers[0].start, workers[0].end))
    /\ RangeLen(workers[0]) > 0

\* C5: a worker that finds a part file of length d below the range length issues
\* its request at start + d; the part file is only ever appended to; and once the
\* worker has completed, the part file holds the resource's bytes [start, end].
C5_Step ==
    \A i \in DOMAIN workers :
        LET w == workers[i]
            v == workers'[i]
            f == fs[PartPath(i)]
            g == fs'[PartPath(i)]
        IN  /\ (w.pc = "spawned" /\ v.pc # "spawned" /\ f.exists /\ Len(f.data) < RangeLen(w))
                => (v.pc = "request" /\ range_start(v) = w.start + Len(f.data))
            /\ (pc = "join" /\ f.exists) => (g.exists /\ IsPrefix(f.data, g.data))
            /\ (pc' = "join" /\ CompletedRange(v)) => g = File(Resource(v.start, v.end))

\* C5, for every step of a worker: a short part file is resumed at start + d,
\* appended to, and complete when the worker has completed.
C5_ResumeAppendsAndCompletes == [][C5_Step]_vars

\* C6: a worker skips the transfer only if its part file holds at least
\* end - start + 1 bytes.
C6_SkipsOnlyCompleteParts ==
    pc = "join" =>
        \A i \in DOMAIN workers :
            workers[i].pc = "skipped" => Len(fs[PartPath(i)].data) >= RangeLen(workers[i])

NextUnpaused ==
    \/ Start
    \/ \E i \in DOMAIN workers :
        \/ WorkerBegin(i)
        \/ WorkerRequest(i)
        \/ WorkerNextChunk(i)
        \/ WorkerPollReading(i, FALSE)
        \/ WorkerWrite(i)
    \/ Joined
    \/ MergeOpen
    \/ MergePart
    \/ MergeReplace
    \/ MergeRename
    \/ Verify
    \/ SingleRequest
    \/ SingleNextChunk
    \/ SinglePollReading(FALSE)
    \/ SingleWrite

\* C8: for any interleaving of pause() and resume() with the workers, every step
\* either changes nothing but the pause flag or is a step the never-paused download
\* takes from the same files and worker states: pausing delays chunks, it neither
\* drops nor repeats one, so the files written are those of a run without pause.
C8_PauseOnlyDelays ==
    [][ NextUnpaused
        \/ UNCHANGED <<pc, ctorVars, exceptions, fs, workers, single, merge, raised>> ]_vars

\* The flag is set in the middle of a download: one worker holds a chunk whose
\* poll has passed, the other holds a chunk it may not write yet.
C8_Witness ==
    /\ pc = "join"
    /\ paused
    /\ num_threads = 2
    /\ workers[0].pc = "write"
    /\ workers[1].pc = "poll"
    /\ workers[1].downloaded > 0


(***************************************************************************)
(* C11 .. C20                                                              *)
(***************************************************************************)
\* C11: after the constructor returned, whatever the probes answered and
\* whatever bound N >= 1 the caller passed, 1 <= num_threads <= N.
C11_WorkerCountWithinBound ==
    pc \in {"constructed", "constructed_degraded"}
        => 1 <= num_threads /\ num_threads <= requested

\* A server with ranges and a known size, and a bound below the size's tier.
C11_Witness ==
    /\ pc = "constructed"
    /\ range_supported
    /\ file_size = 600 * MB
    /\ cores = 8
    /\ requested = 3
    /\ num_threads = 3

\* A probe that answered with a success status: the HEAD itself, or the GET
\* for bytes 0-0 that follows a HEAD answered 403.
ProbeAnswered(in) ==
    \/ in.head.kind = "resp" /\ in.head.status \in {200, 206}
    \/ /\ in.head.kind = "resp" /\ in.head.status = 403
       /\ in.fallback.kind = "resp" /\ in.fallback.status \in {200, 206}

\* C12: the constructor never raises because of probing, whatever the HEAD and
\* the fallback requests answer (transport error, non-success status, missing or
\* unusable size header); when no probe answered with success the object is in
\* degraded mode: size 0, no range support, one worker.
C12_ConstructionNeverFails ==
    pc # "new" =>
        /\ pc # "ctor_raised"
        /\ ~ProbeAnswered(probe) =>
               /\ pc = "constructed_degraded"
               /\ file_size = 0 /\ ~range_supported /\ num_threads = 1

\* The total size a response carries: the total of its Content-Range header,
\* or, without one, its Content-Length.
CarriedTotal(r) == IF r.cr # -1 THEN r.cr ELSE r.cl

\* C13: when the HEAD is answered 403 and the GET for bytes 0-0 is answered 206
\* (by a server that answers the range test the same way), the constructor ends
\* with range support and with file_size equal to the total the 206 carries, not
\* to the length of its one-byte body.
C13_FallbackRecordsTotalSize ==
    ( /\ pc # "new"
      /\ probe.head.kind = "resp" /\ probe.head.status = 403
      /\ probe.fallback.kind = "resp" /\ probe.fallback.status = 206
      /\ CarriedTotal(probe.fallback) > 0
      /\ probe.test.kind = "resp" /\ probe.test.status = 206 )
    => /\ pc = "constructed"
       /\ range_supported
       /\ file_size = CarriedTotal(probe.fallback)

\* The merged file, <download_path>/<filename>, has a size other than file_size.
MergedSizeDiffers ==
    /\ pc = "verify"
    /\ file_size > 0
    /\ fs[FinalPath].exists
    /\ Len(fs[FinalPath].data) # file_size

C14_Step ==
    /\ (MergedSizeDiffers /\ pc' # pc) => pc' = "single_fallback"
    /\ (pc = "single_fallback" /\ pc' # pc) =>
           \/ pc' = "done" /\ single'.pc = "returned"
           \/ pc' = "failed" /\ single'.pc = "raised"

\* C14: when merge_parts succeeded and the merged file's size differs from the
\* probed size S > 0, start() does not fail there: it runs the single-stream
\* download, once, and returns if that download returns, raises if it raises.
C14_SizeMismatchFallsBackOnce == [][C14_Step]_vars

\* Part i is not in the download directory when the merge loop comes to it.
PartMissing(i) == ~fs[PartPath(i)].exists

C15_Step ==
    (pc = "merging" /\ merge.pc \in {"open", "part"}) =>
        /\ fs'[FinalPath] = fs[FinalPath]
        /\ (merge.pc = "part" /\ PartMissing(merge.i) /\ merge' # merge) =>
               /\ merge'.pc = "returned_false"
               /\ pc' = "failed"
               /\ raised'.kind = "merge_failed"

\* C15: when merge_parts comes to a part file <download_path>/<filename>.part<i>
\* that is missing, it returns False, the final file is as it was before the
\* call, and start() raises.
C15_MissingPartFailsMerge == [][C15_Step]_vars

\* C16: once merge_parts has returned True, no part file <filename>.part0 ..
\* .part(N-1) and no staging file <filename>.temp is in the download directory,
\* and the final file exists.
C16_MergeSuccessLeavesOnlyFinal ==
    merge.pc = "returned_true" =>
        /\ \A i \in 0..(num_threads - 1) : ~fs[PartPath(i)].exists
        /\ ~fs[TempPath].exists
        /\ fs[FinalPath].exists

\* merge_parts has just returned True for two workers and a resource of 3 bytes.
C16_Witness ==
    /\ pc = "verify"
    /\ merge.pc = "returned_true"
    /\ num_threads = 2
    /\ fs[FinalPath] = File(Resource(0, 2))

\* C17: the last progress sample of a worker that has completed its range is a
\* sample of 100 percent for its own index, whether it downloaded the bytes or
\* found its part file complete.
C17_CompletedWorkerReportsHundred ==
    \A i \in DOMAIN workers :
        CompletedRange(workers[i]) => workers[i].percent = 100

\* The number of Error records the history holds for item i.
ErrorRecords(h, i) ==
    Cardinality({ k \in 1..Len(h) : h[k].item = i /\ h[k].status = "Error" })

\* The download thread of item i leaves its finally block after an exception.
FailedThreadExits(i) ==
    /\ thread[i].pc = "finally"
    /\ thread[i].raised
    /\ thread'[i].pc = "exited"

C18_Step ==
    \A i \in Items :
        /\ FailedThreadExits(i) =>
               /\ download_queue'[i].status = "Error"
               /\ download_queue'[i].error_message = thread[i].error_message
               /\ thread[i].error_message # ""
               /\ history' = Append(history, Record(i, "Error", thread[i].error_message))
               /\ after_queue'.finished = after_queue.finished + 1
        /\ ErrorRecords(history', i) # ErrorRecords(history, i) =>
               /\ thread[i].pc = "finally" /\ thread'[i].pc = "exited"
               /\ ErrorRecords(history', i) = ErrorRecords(history, i) + 1

\* C18: when FastDownloader's constructor or start() raises in an item's download
\* thread, the thread leaves the item with status Error and the failure's message,
\* adds exactly one Error record for it to the history (no other step adds one),
\* and schedules _download_item_finished.
C18_FailureMarksItemError == [][C18_Step]_vars

\* start() raised in the thread of item 1 and the handler is scheduled.
C18_Witness ==
    /\ pc = "ui"
    /\ thread[1].pc = "exited"
    /\ thread[1].raised
    /\ thread[1].error_message = "Merging parts failed"
    /\ download_queue[1] = [status |-> "Error", error_message |-> "Merging parts failed"]
    /\ ErrorRecords(history, 1) = 1
    /\ after_queue.finished = 1

C19_Step ==
    /\ (merge'.called /\ ~merge.called) =>
           /\ \A i \in DOMAIN workers : workers[i].pc \in {"done", "skipped", "failed"}
           /\ exceptions = <<>>
    /\ merge.called =>
           /\ workers' = workers
           /\ exceptions' = <<>>

\* C19: merge_parts is entered only when every worker thread of this start() has
\* terminated and self.exceptions is empty, and from then on no worker takes a
\* step, so none writes a part file while or after the merge reads it.
C19_MergeAfterAllWorkers == [][C19_Step]_vars

\* The merge loop has consumed part 0, which its worker skipped, and is about
\* to read part 1, which its worker downloaded after a retry.
C19_Witness ==
    /\ pc = "merging"
    /\ merge.pc = "part"
    /\ merge.i = 1
    /\ workers[0].pc = "skipped"
    /\ workers[1].pc = "done"
    /\ workers[1].retries > 0

\* merge_parts returned True after every worker completed its range, and the
\* merged file has the probed size.
MergedAsProbed ==
    /\ pc = "verify"
    /\ merge.pc = "returned_true"
    /\ \A i \in DOMAIN workers : CompletedRange(workers[i])
    /\ fs[FinalPath].exists
    /\ Len(fs[FinalPath].data) = file_size

C20_Step == (MergedAsProbed /\ pc' # pc) => (pc' = "done" /\ single' = single)

\* C20: when every worker completed, merge_parts returned True and the merged
\* file has the probed size, start() returns normally, without raising and
\* without another transfer, whatever the download directory is.
C20_VerifiedMergeCompletes == [][C20_Step]_vars

(***************************************************************************)
(* C21 .. C30                                                              *)
(***************************************************************************)
\* C21: with a worker count of 1 (no range support, unknown size, or a plan of
\* one range) start() spawns no worker thread and no part file is written: it
\* downloads through download_single_thread; workers and part files belong to
\* plans of two or more ranges.
C21_OneWorkerUsesSingleStream ==
    (pc # "constructed" /\ num_threads = 1) =>
        /\ DOMAIN workers = {}
        /\ single.pc # "off"

C22_Step ==
    /\ InSingle => \A p \in DOMAIN fs : p # FinalPath => fs'[p] = fs[p]
    /\ (InSingle /\ single'.pc = "returned") =>
           fs'[FinalPath] = File(Resource(0, resource_size - 1))

\* C22: download_single_thread, called directly or as the fallback after a size
\* mismatch, writes to <download_path>/<filename> and to no other path, and when
\* it returns that file holds the whole resource.
C22_SingleStreamWritesFinalFile == [][C22_Step]_vars

\* The number of failures worker i has appended to self.exceptions.
FailuresBy(excs, i) ==
    Cardinality({ k \in 1..Len(excs) : excs[k] = Raised("worker", i) })

C23_Step ==
    \A i \in DOMAIN workers :
        LET w == workers[i]
            v == workers'[i]
            failure == v.retries # w.retries
            tenth == w.retries = MAX_RETRIES - 1 /\ v.retries = MAX_RETRIES
        IN  /\ v.requests <= MAX_RETRIES
            /\ v.requests \in {w.requests, w.requests + 1}
            /\ failure => v.retries = w.retries + 1 /\ w.pc \in {"request", "stream"}
            /\ (v # w /\ w.pc \in {"request", "stream"} /\ v.pc \in {"request", "failed"})
                   => failure
            /\ (FailuresBy(exceptions', i) # FailuresBy(exceptions, i)) <=> tenth
            /\ tenth => v.pc = "failed" /\ FailuresBy(exceptions', i) = 1
            /\ w.pc = "failed" => v = w
            /\ (v # w) => (pc' = pc /\ raised' = raised)

\* C23: a worker issues at most MAX_RETRIES ranged requests; every failure of a
\* request or of its stream adds one to the same counter; the worker appends a
\* failure to self.exceptions exactly at its tenth failure, only once, and then
\* returns; a step of a worker never makes start() raise.
C23_RetriesBounded == [][C23_Step]_vars

\* Ten requests, ten failures: worker 1 gave up and recorded its failure.
C23_Witness ==
    /\ pc = "join"
    /\ DOMAIN workers = {0, 1}
    /\ workers[1].pc = "failed"
    /\ workers[1].requests = MAX_RETRIES
    /\ workers[1].retries = MAX_RETRIES
    /\ exceptions = << Raised("worker", 1) >>
    /\ workers[0].pc = "done"
    /\ workers[0].requests = MAX_RETRIES
    /\ workers[0].retries = MAX_RETRIES - 1

\* Worker j has not returned from download_part.
StillRunning(j) == j \in DOMAIN workers /\ ~Terminated(workers[j])

C24_Step ==
    /\ \A i \in DOMAIN workers : \A j \in DOMAIN workers \ {i} :
           workers'[i] # workers[i] =>
               /\ workers'[j] = workers[j]
               /\ fs'[PartPath(j)] = fs[PartPath(j)]
    /\ \A j \in DOMAIN workers :
           (~Terminated(workers[j]) /\ Terminated(workers'[j])) =>
               \/ workers'[j].pc = "failed" /\ workers'[j].retries = MAX_RETRIES
               \/ workers'[j].pc # "failed" /\ workers'[j].retries < MAX_RETRIES
    /\ exceptions' # exceptions => pc = "join" /\ pc' = "join" /\ raised' = raised
    /\ (pc = "join" /\ pc' # "join") =>
           /\ \A j \in DOMAIN workers : Terminated(workers[j])
           /\ workers' = workers

Appended(p) == fs[p].exists /\ fs'[p].exists /\ Len(fs'[p].data) > Len(fs[p].data)

C25_Step ==
    /\ pc = "join" =>
           \A i \in DOMAIN workers :
               LET w == workers[i]
                   v == workers'[i]
               IN  /\ Appended(PartPath(i)) => w.pc = "write" /\ v.pc # "write"
                   /\ (w.pc # "write" /\ v.pc = "write") => w.pc = "poll" /\ ~paused
                   /\ (paused /\ w.pc = "poll") => v = w
                   /\ (paused /\ paused' /\ w.pc # "write") =>
                          v.pc # "write" /\ ~Appended(PartPath(i))
    /\ InSingle =>
           /\ Appended(CwdFilePath) => single.pc = "write" /\ single'.pc # "write"
           /\ (single.pc # "write" /\ single'.pc = "write") => single.pc = "poll" /\ ~paused
           /\ (paused /\ single.pc = "poll") => single' = single
           /\ (paused /\ paused' /\ single.pc # "write") =>
                  single'.pc # "write" /\ ~Appended(CwdFilePath)

\* C25: a chunk is appended only after a poll that read the flag clear. A poll
\* that reads the flag set leaves the worker where it is; while the flag stays
\* set, a worker that is not already past its poll never gets past one and
\* appends nothing, and a worker that is past its poll appends that one chunk
\* and is then no longer past a poll: at most one further chunk per worker until
\* resume(). The same for the single stream and its file.
C25_PausedWorkersStopWriting == [][C25_Step]_vars

\* The flag is set; worker 1 has appended a chunk and now waits at the poll of
\* its next chunk, worker 0 is past its poll and still may append one chunk.
C25_Witness ==
    /\ pc = "join"
    /\ paused
    /\ DOMAIN workers = {0, 1}
    /\ workers[1].pc = "poll"
    /\ workers[1].downloaded > 0
    /\ Len(fs[PartPath(1)].data) = workers[1].downloaded
    /\ workers[0].pc = "write"

C26_Step ==
    /\ (pc = "merging" /\ merge.pc = "open"
            /\ \E i \in 0..(num_threads - 1) : PartMissing(i)) => fs' = fs
    /\ pc = "merging" =>
           \A j \in 0..(num_threads - 1) :
               (fs[PartPath(j)].exists /\ ~fs'[PartPath(j)].exists) =>
                   \A k \in j..(num_threads - 1) : ~PartMissing(k)
    /\ (pc = "merging" /\ merge'.pc = "returned_false") => ~fs'[TempPath].exists

\* C26: merge_parts called while some part file 0..N-1 is missing leaves the
\* disk as it is: it creates no <filename>.temp, it removes a part file only when
\* every part file from that one on exists, and when it returns False no
\* <filename>.temp is there.
C26_FailedMergeChangesNothing == [][C26_Step]_vars

C27_Step ==
    (pc = "merging" /\ fs[FinalPath].exists) =>
        \/ fs'[FinalPath] = fs[FinalPath]
        \/ /\ merge.pc \in {"replace", "rename"}
           /\ fs'[FinalPath] = fs[TempPath]

\* C27: while merge_parts runs over an existing final file, every step leaves
\* that file as it is or puts the complete staging file in its place; the final
\* path never holds anything else, whether os.remove or os.rename fails or not.
C27_FinalReplacedAtomically == [][C27_Step]_vars

\* Worker i has moved in this step.
Stepped(i) == workers'[i] # workers[i]

C28_Step ==
    /\ pc = "join" =>
           /\ \A p \in DOMAIN fs :
                  fs'[p] # fs[p] => \E i \in DOMAIN workers : p = PartPath(i) /\ Stepped(i)
           /\ \A i \in DOMAIN workers :
                  workers'[i].percent # workers[i].percent =>
                      /\ workers[i].pc \in {"spawned", "write"}
                      /\ \A j \in DOMAIN workers \ {i} : ~Stepped(j)
           /\ (\E i \in DOMAIN workers : Stepped(i)) => paused' = paused
    /\ paused' # paused =>
           UNCHANGED <<pc, ctorVars, exceptions, fs, workers, single, merge, raised>>

\* C28: while the workers run, a file changes only if it is part file i and
\* worker i moved; slot i of the progress list, and with it the sample of index
\* i, changes only in a step of worker i (its skip or its write) in which no
\* other worker moves; no step of a worker changes self.paused, and a step that
\* changes self.paused (pause() or resume()) changes nothing else.
C28_WorkerWritesOwnSlotOnly == [][C28_Step]_vars

\* Worker 1 has written half of its range and reported 50 on slot 1; slot 0 and
\* part file 0 are still untouched.
C28_Witness ==
    /\ pc = "join"
    /\ DOMAIN workers = {0, 1}
    /\ workers[1].percent = 50
    /\ Len(fs[PartPath(1)].data) = 1
    /\ workers[0].percent = 0 - 1
    /\ workers[0].pc = "request"
    /\ ~fs[PartPath(0)].exists

\* start() has returned or raised.
Finished == pc \in {"done", "failed"}

\* A step of thread i of the running start().
ThreadStep(i) == i \in DOMAIN workers /\ Worker(i)

\* The steps start() takes in its own thread after the join.
StartStep ==
    \/ Joined
    \/ MergeOpen
    \/ MergePart
    \/ MergeReplace
    \/ MergeRename
    \/ Verify

SingleStep ==
    \/ SingleRequest
    \/ SingleNextChunk
    \/ SinglePoll
    \/ SingleWrite

\* Every thread is scheduled again and again and every network call comes back
\* (a thread with a step to take takes one; a polling thread whose flag is
\* cleared again and again reads it clear at some time), and a pause() during
\* the download is followed by resume().
Fairness ==
    /\ \A i \in 0..(MaxThreadsArg - 1) : SF_vars(ThreadStep(i))
    /\ WF_vars(StartStep)
    /\ SF_vars(SingleStep)
    /\ WF_vars(Resume)

MaxLiveSize == 2

\* A first download, of a resource of at most MaxLiveSize bytes, into the working
\* directory: nothing on disk.
InitLive ==
    /\ InitDownloader
    /\ resource_size <= MaxLiveSize
    /\ sameDir = TRUE
    /\ fs = [ p \in Paths(num_threads) |-> Absent ]

\* start() under a fair scheduler, a responsive network and a user who resumes.
SpecLive == InitLive /\ [][Next]_vars /\ Fairness

\* Some thread holds a chunk and waits for the flag to clear.
WaitingAtPoll ==
    \/ pc = "join" /\ \E i \in DOMAIN workers : workers[i].pc = "poll"
    \/ InSingle /\ single.pc = "poll"

C29_PausedStep ==
    (paused /\ paused' /\ WaitingAtPoll) =>
        /\ ~Finished'
        /\ \A i \in DOMAIN workers : workers[i].pc = "poll" => workers'[i] = workers[i]
        /\ single.pc = "poll" => single' = single

OutcomeRecords(h, i) ==
    { k \in 1..Len(h) : h[k].item = i /\ h[k].status \in {"Completed", "Error"} }

C30_Step ==
    /\ \A i \in Items :
           download_queue[i].status = "Cancelled" =>
               /\ download_queue'[i].status = "Cancelled"
               /\ OutcomeRecords(history', i) = OutcomeRecords(history, i)
    /\ \A j \in Items :
           (current_download = j /\ thread[j].pc # "exited"
                /\ download_queue'[j].status # "Cancelled") =>
               /\ current_download' = j
               /\ downloader' \in {downloader, j}

\* C30: an item with status Cancelled keeps that status and gets no Completed or
\* Error record; and while the thread of the current item has not finished and
\* the item is not cancelled, no step clears or changes self.current_download,
\* and self.downloader changes only to that item's own downloader.
C30_CancelledOutcomeIgnored == [][C30_Step]_vars

(***************************************************************************)
(* C31 .. C37                                                              *)
(***************************************************************************)
\* The k most recently added records of h, newest first.
NewestFirst(h, k) ==
    LET m == IF k < Len(h) THEN k ELSE Len(h)
    IN  [ j \in 1..m |-> h[Len(h) - j + 1] ]

\* C31: for every limit >= 0, get_recent_downloads(limit) returns at most limit
\* records, and they are the most recently added ones, newest first.
C31_RecentAtMostLimit ==
    (recent.called /\ recent.limit >= 0) =>
        /\ Len(recent.records) <= recent.limit
        /\ recent.records = NewestFirst(history, recent.limit)

\* h without the durations add_record fills in later.
Undated(h) == [ k \in 1..Len(h) |-> [h[k] EXCEPT !.duration = FALSE] ]

\* The last records of h, at most HISTORY_LIMIT of them, in the order of h.
MostRecent(h) ==
    LET m == IF Len(h) < HISTORY_LIMIT THEN Len(h) ELSE HISTORY_LIMIT
    IN  SubSeq(h, Len(h) - m + 1, Len(h))

C37_Step ==
    /\ Len(history') <= HISTORY_LIMIT
    /\ history' # history =>
           \/ history' = <<>>
           \/ /\ history' # <<>>
              /\ history'[Len(history')].item > 0
              /\ Undated(history') =
                     Undated(MostRecent(Append(history, history'[Len(history')])))

\* C37: the history never holds more than HISTORY_LIMIT records, and every call
\* leaves it empty (clear_history) or holding, in insertion order, the last
\* HISTORY_LIMIT records of the list it had with the new record appended.
C37_HistoryKeepsMostRecent == [](Len(history) <= HISTORY_LIMIT) /\ [][C37_Step]_vars

\* A full file of HISTORY_LIMIT records was loaded and MaxAdds records were added:
\* the oldest MaxAdds loaded records are gone, the new ones are at the end.
C37_Witness ==
    /\ pc = "history"
    /\ Len(history) = HISTORY_LIMIT
    /\ AddedHere(history) = MaxAdds
    /\ history[1].item = 0 - (MaxAdds + 1)
    /\ history[HISTORY_LIMIT].item > 0

\* C32: while start() joins, a worker that has returned without recording a
\* failure has a part file of exactly end - start + 1 bytes.
C32_ReturnedWorkerHasFullPart ==
    pc = "join" =>
        \A i \in DOMAIN workers :
            workers[i].pc \in {"done", "skipped"} =>
                Len(fs[PartPath(i)].data) = RangeLen(workers[i])

MaxKeptFailures == 1

\* start() is called again on a downloader whose earlier start() has returned or
\* raised (lines 400-421): the same plan, the disk and self.exceptions as the
\* earlier run left them, fresh locals. Runs are repeated only while
\* self.exceptions holds at most MaxKeptFailures failures.
StartAgain ==
    /\ pc \in {"done", "failed"}
    /\ Len(exceptions) <= MaxKeptFailures
    /\ IF ~range_supported \/ file_size = 0
       THEN /\ pc' = "single"
            /\ single' = [NoSingle EXCEPT !.pc = "request"]
            /\ workers' = NoWorkers
       ELSE /\ pc' = "join"
            /\ workers' = SpawnWorkers(file_size, num_threads, part_size)
            /\ single' = NoSingle
    /\ merge' = NoMerge
    /\ raised' = NotRaised
    /\ UNCHANGED <<ctorVars, paused, exceptions, fs>>

RestartNext == Next \/ StartAgain

\* start() called any number of times on one downloader, first on an empty disk.
SpecRestart == InitLive /\ [][RestartNext]_vars

\* This invocation of start() raised the failure of a worker.
RaisesWorkerFailure == pc = "join" /\ pc' = "failed" /\ raised'.kind = "worker"

\* C33: start() raises a worker's failure only if a worker of this invocation
\* has exhausted its retries; a run in which every worker completes goes on to
\* the merge whatever an earlier run recorded.
C33_FailsOnlyOnOwnFailures ==
    [][ RaisesWorkerFailure =>
            \E i \in DOMAIN workers :
                workers[i].pc = "failed" /\ workers[i].retries = MAX_RETRIES ]_vars

\* C34: every range start() hands to a worker is non-empty, and when every
\* worker has returned without a failure and merge_parts is entered, every part
\* file 0..N-1 is there.
C34_RangesNonEmpty ==
    /\ \A i \in DOMAIN workers : workers[i].start <= workers[i].end
    /\ (pc = "merging" /\ merge.pc = "open") =>
           \A i \in 0..(num_threads - 1) : fs[PartPath(i)].exists

\* The items whose _run_download_item thread has been started and has not ended.
RunningThreads == { i \in DOMAIN thread : thread[i].pc \notin {"none", "exited"} }

\* The items shown as being downloaded.
ActiveItems == { i \in DOMAIN download_queue :
                    download_queue[i].status \in {"Downloading", "Paused"} }

\* C35: at most one download thread (and so at most one engine) runs at a time,
\* and at most one item has status Downloading or Paused.
C35_OneDownloadAtATime ==
    /\ Cardinality(RunningThreads) <= 1
    /\ Cardinality(ActiveItems) <= 1

(***************************************************************************)
(* SpecUILive: the queue with its threads and main-loop callbacks running  *)
(***************************************************************************)
\* A started _run_download_item thread goes on to its finally block (every
\* download terminates), and the Tk main loop runs each callback handed to
\* after().  The buttons are the user's and carry no fairness.
UIFairness ==
    /\ \A i \in Items : WF_vars(Run(i))
    /\ WF_vars(download_item_finished)
    /\ WF_vars(start_next_download)

SpecUILive == UIInit /\ [][UINext]_vars /\ UIFairness

IsQueued(i) == download_queue[i].status = "Queued"

\* An item leaves Queued only by being started, and only the first Queued item
\* of the list is.
C36_Step ==
    \A i \in Items :
        (IsQueued(i) /\ download_queue'[i].status # "Queued") =>
            /\ \A j \in Items : IsQueued(j) => i <= j
            /\ download_queue'[i].status = "Downloading"
            /\ thread'[i].pc = "construct"

\* C36 as stated: items are started in queue order, and every Queued item is
\* eventually started.
C36_Original ==
    /\ [][C36_Step]_vars
    /\ \A i \in Items : IsQueued(i) ~> ~IsQueued(i)

\* A download thread is running, or a callback of the advance is waiting in
\* the main loop.
AdvancePending ==
    \/ RunningThreads # {}
    \/ after_queue.finished > 0
    \/ after_queue.next > 0

\* C36: items are started in queue order, and once a download has been started
\* (a thread runs or the advance is pending) every Queued item is eventually
\* started.
C36_QueuedStartedInOrder ==
    /\ [][C36_Step]_vars
    /\ \A i \in Items : (IsQueued(i) /\ AdvancePending) ~> ~IsQueued(i)

\* The first item has completed and the advance has started the second.
C36_Witness ==
    /\ download_queue[1].status = "Completed"
    /\ thread[1].pc = "exited"
    /\ download_queue[MaxItems].status = "Downloading"
    /\ current_download = MaxItems
    /\ after_queue.finished = 0
    /\ after_queue.next = 0

=============================================================================
